---- MODULE Spec2Model ----
(***************************************************************************)
(* Bid resolution engine of the freight-tender platform.                   *)
(*                                                                         *)
(* Part 1 models the close-then-approve model: BiddingService              *)
(* (services/biddingService.ts) over the Firebase paths `shipments` and    *)
(* `bids`, driven by the UI handlers that call it.  Every `await` on the   *)
(* database is one atomic step of the calling client; between two steps    *)
(* of one client any other client may take steps.                          *)
(*                                                                         *)
(* Part 2 models the negotiated forward model: the handlers of App         *)
(* over the React state `bids` (ShipmentBid with its sorted offers).       *)
(*                                                                         *)
(* Part 3 models the reverse auction on a lane: LiveAuctionService         *)
(* (services/liveAuctionService.ts) over `live_auctions` and               *)
(* `reverse_bids`, one atomic step per awaited database operation.         *)
(***************************************************************************)
EXTENDS Integers, Sequences, FiniteSets

(***************************************************************************)
(* Bounds of the model.                                                    *)
(***************************************************************************)
MaxBids == 3
MaxConcBids == 2
MaxAmount == 3
MaxOffers == 2
MaxOfferAmount == 2
MaxTime == 2
MaxReverseBids == 3

(***************************************************************************)
(* Fixed master data.                                                      *)
(***************************************************************************)
Procs == {"c1", "c2"}
Shipments == {"S1"}
Vendors == {"V1", "V2", "V3"}
Amounts == 1..MaxAmount

\* User.lanes: V1 is assigned the shipment's lane, V2 another lane, V3 both.
vendorLanes == [v \in Vendors |->
                  IF v = "V1" THEN {"L1"} ELSE IF v = "V2" THEN {"L2"} ELSE {"L1", "L2"}]
\* The LaneMaster whose origin/destination match the shipment's.
laneOf == [s \in Shipments |-> "L1"]

VARIABLES
  shipments,   \* Firebase `shipments`: id -> SimpleShipment
  bids,        \* Firebase `bids`: push order, the index is the bid id
  call,        \* per client: the service call in flight and its locals
  appBid,      \* App state: the ShipmentBid of the forward model
  now,         \* wall clock of the forward model
  serial,      \* TRUE: the clients take turns, one call at a time
  liveAuctions,  \* Firebase `live_auctions`: id -> LiveAuction
  reverseBids,   \* Firebase `reverse_bids`: push order, the index is the bid id
  liveCall       \* per client: the LiveAuctionService call in flight

bsVars == <<shipments, bids, call>>
appVars == <<appBid, now>>
liveVars == <<liveAuctions, reverseBids, liveCall>>
envVars == <<appBid, now, serial, liveVars>>
vars == <<shipments, bids, call, appBid, now, serial, liveAuctions, reverseBids, liveCall>>

(***************************************************************************)
(* Part 1: BiddingService                                                  *)
(***************************************************************************)
Idle == [op |-> "none", pc |-> "idle", shipmentId |-> "none", vendorId |-> "none",
         bidAmount |-> 0, bidId |-> 0, nextBidId |-> 0, todo |-> <<>>]

IsIdle(p) == call[p].pc = "idle"
AllIdle == \A p \in Procs : IsIdle(p)

BidIds == 1..Len(bids)

\* Array.prototype.sort((a, b) => a.bidAmount - b.bidAmount) on a list of bids,
\* given by their ids: ascending by amount, equal amounts keep their order.
SortByAmount_unsorted(q) == q

SortByAmount(q) ==
  LET n == Len(q)
      before(i, j) == \/ bids[q[i]].bidAmount < bids[q[j]].bidAmount
                      \/ bids[q[i]].bidAmount = bids[q[j]].bidAmount /\ i < j
      pos(i) == 1 + Cardinality({j \in 1..n : before(j, i)})
  IN  [k \in 1..n |-> q[CHOOSE i \in 1..n : pos(i) = k]]

\* getBidsForShipment: every bid of the shipment, whatever its status, sorted.
getBidsForShipment(s) ==
  SortByAmount(SelectSeq([i \in BidIds |-> i], LAMBDA i : bids[i].shipmentId = s))

\* getVendorBidOnShipment: the first bid of the vendor on the shipment, 0 if none.
getVendorBidOnShipment(s, v) ==
  LET mine == {i \in BidIds : bids[i].shipmentId = s /\ bids[i].vendorId = v}
  IN  IF mine = {} THEN 0 ELSE CHOOSE i \in mine : \A j \in mine : i <= j

\* updateShipmentStatus: winningBidId and finalAmount are put into the update
\* only for the statuses FINALIZED and APPROVED.  0 stands for an argument the
\* caller left out: the property is then undefined, update() throws on it
\* before anything is sent, and the catch block swallows the error, so nothing
\* is written.
updateShipmentStatus(s, status, winningBidId, finalAmount) ==
  IF status \in {"FINALIZED", "APPROVED"}
  THEN IF winningBidId = 0 \/ finalAmount = 0
       THEN shipments
       ELSE [shipments EXCEPT ![s].status = status,
                              ![s].winningBidId = winningBidId,
                              ![s].finalAmount = finalAmount]
  ELSE [shipments EXCEPT ![s].status = status]

\* update(ref(bids/id), {status})
setBidStatus(id, status) == [bids EXCEPT ![id].status = status]

\* The call returns `res` to its handler; the client is idle again.
Return(p, res) == call' = [call EXCEPT ![p] = Idle]

\* A client starts a call when it is idle; when the clients take turns, when
\* every client is idle.
Begin(p, rec) ==
  /\ IsIdle(p)
  /\ serial => AllIdle
  /\ call' = [call EXCEPT ![p] = rec]

\* placeBid calls that have not yet written their bid.
InFlightBids == Cardinality({p \in Procs : call[p].op \in {"placeBid", "handleSubmitBid"}})

\* The model stops taking submissions once the bids written or on their way
\* reach the cap.
Room == Len(bids) + InFlightBids < (IF serial THEN MaxBids ELSE MaxConcBids)

\* filteredShipments: a vendor with assigned lanes sees only shipments on them.
isEligible(v, s) == vendorLanes[v] = {} \/ laneOf[s] \in vendorLanes[v]

----------------------------------------------------------------------------
\* UI handlers: each starts one service call from what the component shows.

\* VendorAuctionMonitor.handlePlaceBid: the form is shown for an OPEN shipment
\* of the vendor's lanes.
handlePlaceBid(p, v, s, a) ==
  /\ shipments[s].status = "OPEN"
  /\ isEligible(v, s)
  /\ Room
  /\ Begin(p, [Idle EXCEPT !.op = "placeBid", !.pc = "pb_check", !.shipmentId = s,
                           !.vendorId = v, !.bidAmount = a])
  /\ UNCHANGED <<shipments, bids, envVars>>

\* RealtimeBiddingConsole.handleSubmitBid: the console lists the OPEN shipments
\* without a lane filter and keeps its selected shipment once chosen; the new
\* amount must undercut the lowest bid shown; an own bid is rejected first.
handleSubmitBid(p, v, s, a) ==
  LET allBids == getBidsForShipment(s)
      mine == {k \in 1..Len(allBids) : bids[allBids[k]].vendorId = v}
      yourBid == IF mine = {} THEN 0
                 ELSE allBids[CHOOSE k \in mine : \A j \in mine : k <= j]
  IN  /\ \E o \in Shipments : shipments[o].status = "OPEN"
      /\ Len(allBids) > 0 => a < bids[allBids[1]].bidAmount
      /\ Room
      /\ Begin(p, [Idle EXCEPT !.op = "handleSubmitBid",
                               !.pc = IF yourBid # 0 THEN "rb_write" ELSE "pb_check",
                               !.shipmentId = s, !.vendorId = v, !.bidAmount = a,
                               !.bidId = yourBid])
      /\ UNCHANGED <<shipments, bids, envVars>>

\* AdminAuctionConsole.handleCloseAuction: the button is enabled for an OPEN
\* shipment that shows at least one bid.
handleCloseAuction(p, s) ==
  /\ shipments[s].status = "OPEN"
  /\ Len(getBidsForShipment(s)) > 0
  /\ Begin(p, [Idle EXCEPT !.op = "closeAuction", !.pc = "ca_read", !.shipmentId = s])
  /\ UNCHANGED <<shipments, bids, envVars>>

\* AdminAuctionConsole.handleApproveBid: Finalize is offered on the first listed
\* bid of a PENDING_ADMIN_APPROVAL shipment when that bid is APPROVED.
handleApproveBid(p, s) ==
  LET shown == getBidsForShipment(s)
  IN  /\ shipments[s].status = "PENDING_ADMIN_APPROVAL"
      /\ Len(shown) > 0
      /\ bids[shown[1]].status = "APPROVED"
      /\ Begin(p, [Idle EXCEPT !.op = "finalizeBid", !.pc = "fb_status",
                               !.shipmentId = s, !.bidId = shown[1]])
      /\ UNCHANGED <<shipments, bids, envVars>>

\* AdminAuctionConsole.handleRejectAndNext: Reject is offered on the first
\* listed bid when it is APPROVED and a second bid is listed.
handleRejectAndNext(p, s) ==
  LET shown == getBidsForShipment(s)
  IN  /\ shipments[s].status = "PENDING_ADMIN_APPROVAL"
      /\ Len(shown) > 1
      /\ bids[shown[1]].status = "APPROVED"
      /\ Begin(p, [Idle EXCEPT !.op = "rejectAndSelectNext", !.pc = "rs_reject",
                               !.shipmentId = s, !.bidId = shown[1],
                               !.nextBidId = shown[2]])
      /\ UNCHANGED <<shipments, bids, envVars>>

\* AdminBidReview.handleApproveBid: Approve is offered on every PENDING bid of
\* the selected shipment.
reviewApproveBid(p, s, b) ==
  /\ b \in BidIds
  /\ bids[b].shipmentId = s
  /\ bids[b].status = "PENDING"
  /\ Begin(p, [Idle EXCEPT !.op = "approveBid", !.pc = "ab_approve",
                           !.shipmentId = s, !.bidId = b])
  /\ UNCHANGED <<shipments, bids, envVars>>

----------------------------------------------------------------------------
\* BiddingService.placeBid

placeBid_check(p) ==
  /\ call[p].pc = "pb_check"
  /\ IF getVendorBidOnShipment(call[p].shipmentId, call[p].vendorId) # 0
     THEN Return(p, "error")
     ELSE /\ call' = [call EXCEPT ![p].pc = "pb_write"]
  /\ UNCHANGED <<shipments, bids, envVars>>

placeBid_write(p) ==
  /\ call[p].pc = "pb_write"
  /\ bids' = Append(bids, [shipmentId |-> call[p].shipmentId,
                           vendorId |-> call[p].vendorId,
                           bidAmount |-> call[p].bidAmount,
                           status |-> "PENDING"])
  /\ Return(p, "ok")
  /\ UNCHANGED <<shipments, envVars>>

\* BiddingService.rejectBid, as awaited by handleSubmitBid before placeBid.
rejectBid_write(p) ==
  /\ call[p].pc = "rb_write"
  /\ bids' = setBidStatus(call[p].bidId, "REJECTED")
  /\ call' = [call EXCEPT ![p].pc = "pb_check"]
  /\ UNCHANGED <<shipments, envVars>>

----------------------------------------------------------------------------
\* BiddingService.closeAuction

closeAuction_read(p) ==
  /\ call[p].pc = "ca_read"
  /\ LET allBids == getBidsForShipment(call[p].shipmentId)
         sortedBids == SortByAmount(allBids)
     IN  IF Len(allBids) = 0
         THEN call' = [call EXCEPT ![p].pc = "ca_status"]
         ELSE call' = [call EXCEPT ![p].pc = "ca_status",
                                   ![p].bidId = sortedBids[1],
                                   ![p].todo = Tail(sortedBids)]
  /\ UNCHANGED <<shipments, bids, envVars>>

closeAuction_status(p) ==
  /\ call[p].pc = "ca_status"
  /\ IF call[p].bidId = 0
     THEN /\ shipments' = updateShipmentStatus(call[p].shipmentId, "CLOSED", 0, 0)
          /\ Return(p, "NO_BIDS")
     ELSE /\ shipments' = updateShipmentStatus(call[p].shipmentId, "PENDING_ADMIN_APPROVAL",
                                               call[p].bidId, bids[call[p].bidId].bidAmount)
          /\ call' = [call EXCEPT ![p].pc = "ca_winner"]
  /\ UNCHANGED <<bids, envVars>>

closeAuction_winner(p) ==
  /\ call[p].pc = "ca_winner"
  /\ bids' = setBidStatus(call[p].bidId, "APPROVED")
  /\ IF call[p].todo = <<>>
     THEN Return(p, "WINNER_SELECTED")
     ELSE /\ call' = [call EXCEPT ![p].pc = "ca_reject"]
  /\ UNCHANGED <<shipments, envVars>>

closeAuction_reject(p) ==
  /\ call[p].pc = "ca_reject"
  /\ bids' = setBidStatus(Head(call[p].todo), "REJECTED")
  /\ IF Tail(call[p].todo) = <<>>
     THEN Return(p, "WINNER_SELECTED")
     ELSE /\ call' = [call EXCEPT ![p].todo = Tail(call[p].todo)]
  /\ UNCHANGED <<shipments, envVars>>

----------------------------------------------------------------------------
\* BiddingService.finalizeBid

finalizeBid_status(p) ==
  /\ call[p].pc = "fb_status"
  /\ shipments' = updateShipmentStatus(call[p].shipmentId, "FINALIZED", call[p].bidId, 0)
  /\ call' = [call EXCEPT ![p].pc = "fb_vendor"]
  /\ UNCHANGED <<bids, envVars>>

\* getVendorIdForBid, getVendorBidOnShipment and the write of winningVendorId;
\* the two reads are of fields no operation changes.
finalizeBid_vendor(p) ==
  /\ call[p].pc = "fb_vendor"
  /\ LET bid == getVendorBidOnShipment(call[p].shipmentId, bids[call[p].bidId].vendorId)
     IN  shipments' = [shipments EXCEPT ![call[p].shipmentId].winningVendorId =
                                           IF bid = 0 THEN "none" ELSE bids[bid].vendorId]
  /\ Return(p, "ok")
  /\ UNCHANGED <<bids, envVars>>

----------------------------------------------------------------------------
\* BiddingService.rejectAndSelectNext

rejectAndSelectNext_reject_reopen(p) ==
  /\ call[p].pc = "rs_reject"
  /\ bids' = setBidStatus(call[p].bidId, "PENDING")
  /\ call' = [call EXCEPT ![p].pc = "rs_approve"]
  /\ UNCHANGED <<shipments, envVars>>

rejectAndSelectNext_reject(p) ==
  /\ call[p].pc = "rs_reject"
  /\ bids' = setBidStatus(call[p].bidId, "REJECTED")
  /\ call' = [call EXCEPT ![p].pc = "rs_approve"]
  /\ UNCHANGED <<shipments, envVars>>

rejectAndSelectNext_approve(p) ==
  /\ call[p].pc = "rs_approve"
  /\ bids' = setBidStatus(call[p].nextBidId, "APPROVED")
  /\ call' = [call EXCEPT ![p].pc = "rs_status"]
  /\ UNCHANGED <<shipments, envVars>>

rejectAndSelectNext_status(p) ==
  /\ call[p].pc = "rs_status"
  /\ shipments' = updateShipmentStatus(call[p].shipmentId, "PENDING_ADMIN_APPROVAL",
                                       call[p].nextBidId, bids[call[p].nextBidId].bidAmount)
  /\ Return(p, "ok")
  /\ UNCHANGED <<bids, envVars>>

----------------------------------------------------------------------------
\* BiddingService.approveBid

approveBid_approve(p) ==
  /\ call[p].pc = "ab_approve"
  /\ bids' = setBidStatus(call[p].bidId, "APPROVED")
  /\ call' = [call EXCEPT ![p].pc = "ab_read"]
  /\ UNCHANGED <<shipments, envVars>>

approveBid_read(p) ==
  /\ call[p].pc = "ab_read"
  /\ LET allBids == getBidsForShipment(call[p].shipmentId)
         others == SelectSeq(allBids, LAMBDA i : i # call[p].bidId)
     IN  call' = [call EXCEPT ![p].pc = IF others = <<>> THEN "ab_status" ELSE "ab_reject",
                               ![p].todo = others]
  /\ UNCHANGED <<shipments, bids, envVars>>

approveBid_reject(p) ==
  /\ call[p].pc = "ab_reject"
  /\ bids' = setBidStatus(Head(call[p].todo), "REJECTED")
  /\ call' = [call EXCEPT ![p].todo = Tail(call[p].todo),
                           ![p].pc = IF Tail(call[p].todo) = <<>> THEN "ab_status"
                                     ELSE "ab_reject"]
  /\ UNCHANGED <<shipments, envVars>>

approveBid_status(p) ==
  /\ call[p].pc = "ab_status"
  /\ shipments' = updateShipmentStatus(call[p].shipmentId, "APPROVED", call[p].bidId, 0)
  /\ Return(p, "ok")
  /\ UNCHANGED <<bids, envVars>>

----------------------------------------------------------------------------
\* The vendor consoles.
StartBid(p) ==
  \/ \E v \in Vendors, s \in Shipments, a \in Amounts : handlePlaceBid(p, v, s, a)
  \/ \E v \in Vendors, s \in Shipments, a \in Amounts : handleSubmitBid(p, v, s, a)

\* The admin consoles.
StartAdmin(p) ==
  \/ \E s \in Shipments : handleCloseAuction(p, s)
  \/ \E s \in Shipments : handleApproveBid(p, s)
  \/ \E s \in Shipments : handleRejectAndNext(p, s)
  \/ \E s \in Shipments, b \in 1..MaxBids : reviewApproveBid(p, s, b)

Step(p) ==
  \/ placeBid_check(p)
  \/ placeBid_write(p)
  \/ rejectBid_write(p)
  \/ closeAuction_read(p)
  \/ closeAuction_status(p)
  \/ closeAuction_winner(p)
  \/ closeAuction_reject(p)
  \/ finalizeBid_status(p)
  \/ finalizeBid_vendor(p)
  \/ rejectAndSelectNext_reject(p)
  \/ rejectAndSelectNext_approve(p)
  \/ rejectAndSelectNext_status(p)
  \/ approveBid_approve(p)
  \/ approveBid_read(p)
  \/ approveBid_reject(p)
  \/ approveBid_status(p)

----------------------------------------------------------------------------
\* Failing writes.  The bid writes (update, set) of placeBid, closeAuction,
\* approveBid, finalizeBid and rejectAndSelectNext, and the get of
\* rejectAndSelectNext, are awaited directly in the try block of the operation:
\* when the database rejects one, control passes to the catch block and the
\* writes already made stay.
ThrowPoints == {"pb_write", "ca_winner", "ca_reject", "ab_approve", "ab_reject",
                "rs_reject", "rs_approve", "rs_status", "fb_vendor"}

\* The awaited database call rejects: nothing is written by this step.
await_throws(p) ==
  /\ call[p].pc \in ThrowPoints
  /\ call' = [call EXCEPT ![p].pc = "failed"]
  /\ UNCHANGED <<shipments, bids, envVars>>

\* catch (error) { console.error(...); return { success: false, error } }
catch_return(p) ==
  /\ call[p].pc = "failed"
  /\ Return(p, "error")
  /\ UNCHANGED <<shipments, bids, envVars>>

(***************************************************************************)
(* Part 2: App (negotiated forward model)                                  *)
(***************************************************************************)
AppBids == {"B1"}
OfferAmounts == 0..MaxOfferAmount

\* [...offers].sort((a, b) => a.amount - b.amount): ascending by amount, equal
\* amounts keep their order.
SortOffers(q) ==
  LET n == Len(q)
      before(i, j) == \/ q[i].amount < q[j].amount
                      \/ q[i].amount = q[j].amount /\ i < j
      pos(i) == 1 + Cardinality({j \in 1..n : before(j, i)})
  IN  [k \in 1..n |-> q[CHOOSE i \in 1..n : pos(i) = k]]

\* placeOffer: appends the offer, stamped with the current time, and re-sorts.
placeOffer(bidId, vendorId, amount) ==
  /\ Len(appBid[bidId].offers) < MaxOffers
  /\ LET newOffer == [vendorId |-> vendorId, amount |-> amount, timestamp |-> now]
     IN  appBid' = [appBid EXCEPT ![bidId].offers = SortOffers(Append(@, newOffer))]
  /\ UNCHANGED <<now, serial, bsVars, liveVars>>

\* updateBidStatus: {...bid, status, ...extras}
updateBidStatus(bidId, status, extras) ==
  [appBid EXCEPT ![bidId] =
     [f \in DOMAIN appBid[bidId] |->
        IF f \in DOMAIN extras THEN extras[f]
        ELSE IF f = "status" THEN status
        ELSE appBid[bidId][f]]]

\* onCloseBid: updateBidStatus(id, CLOSED)
onCloseBid(bidId) ==
  /\ appBid' = updateBidStatus(bidId, "CLOSED", <<>>)
  /\ UNCHANGED <<now, serial, bsVars, liveVars>>

\* onFinalize: updateBidStatus(id, FINALIZED, {winningVendorId, finalAmount})
onFinalize(bidId, vendorId, amount) ==
  /\ appBid' = updateBidStatus(bidId, "FINALIZED",
                               [winningVendorId |-> vendorId, finalAmount |-> amount])
  /\ UNCHANGED <<now, serial, bsVars, liveVars>>

\* handleCounterOffer: returns early without offers; else the lowest offer's
\* vendor is bound and the bid moves to NEGOTIATING.
handleCounterOffer(bidId, amount) ==
  /\ Len(appBid[bidId].offers) > 0
  /\ appBid' = updateBidStatus(bidId, "NEGOTIATING",
                               [counterOffer |-> amount,
                                winningVendorId |-> appBid[bidId].offers[1].vendorId])
  /\ UNCHANGED <<now, serial, bsVars, liveVars>>

afterRespondToCounter_noAmount(bidId, accept) ==
  IF accept
  THEN updateBidStatus(bidId, "FINALIZED", <<>>)
  ELSE updateBidStatus(bidId, "OPEN", [counterOffer |-> 0])

afterRespondToCounter_keepCounter(bidId, accept) ==
  IF accept
  THEN updateBidStatus(bidId, "FINALIZED", [finalAmount |-> appBid[bidId].counterOffer])
  ELSE updateBidStatus(bidId, "OPEN", <<>>)

\* The bids after respondToCounter: accepting finalizes at the counter offer,
\* declining re-opens the bid and clears the counter offer.
afterRespondToCounter(bidId, accept) ==
  IF accept
  THEN updateBidStatus(bidId, "FINALIZED", [finalAmount |-> appBid[bidId].counterOffer])
  ELSE updateBidStatus(bidId, "OPEN", [counterOffer |-> 0])

\* respondToCounter
respondToCounter(bidId, accept) ==
  /\ appBid' = afterRespondToCounter(bidId, accept)
  /\ UNCHANGED <<now, serial, bsVars, liveVars>>

\* submitVehicleDetails: updateBidStatus(id, ASSIGNED, {vehicleDetails})
submitVehicleDetails(bidId) ==
  /\ appBid' = updateBidStatus(bidId, "ASSIGNED", [vehicleDetails |-> TRUE])
  /\ UNCHANGED <<now, serial, bsVars, liveVars>>

\* The wall clock advances.
Tick ==
  /\ now < MaxTime
  /\ now' = now + 1
  /\ UNCHANGED <<appBid, serial, bsVars, liveVars>>

\* The handlers App passes to its dashboards.
AppHandlers ==
  \/ \E b \in AppBids, v \in Vendors, a \in OfferAmounts : placeOffer(b, v, a)
  \/ \E b \in AppBids : onCloseBid(b)
  \/ \E b \in AppBids, v \in Vendors, a \in OfferAmounts : onFinalize(b, v, a)
  \/ \E b \in AppBids, a \in 1..MaxOfferAmount : handleCounterOffer(b, a)
  \/ \E b \in AppBids, accept \in BOOLEAN : respondToCounter(b, accept)
  \/ \E b \in AppBids : submitVehicleDetails(b)

AppNext == AppHandlers \/ Tick

(***************************************************************************)
(* Part 3: LiveAuctionService (reverse auction on a lane)                  *)
(***************************************************************************)
Auctions == {"A1"}
auctionLane == [a \in Auctions |-> "L1"]

LiveIdle == [op |-> "none", pc |-> "idle", auctionId |-> "none", vendorId |-> "none",
             amount |-> 0, lowestBid |-> 0]

RBidIds == 1..Len(reverseBids)

\* Math.min over no bids is not taken: lowestBid is Infinity.
Infinity == MaxAmount + 1

\* getVendorBidsOnAuction[0]: the vendor's bid on the auction with the latest
\* createdAt, of any status; 0 if none.  createdAt follows the push order.
latestBid(a, v) ==
  LET mine == {i \in RBidIds : reverseBids[i].auctionId = a /\ reverseBids[i].vendorId = v}
  IN  IF mine = {} THEN 0 ELSE CHOOSE i \in mine : \A j \in mine : j <= i

\* getBidsForAuction: the ACTIVE bids of the auction.
getBidsForAuction(a) ==
  {i \in RBidIds : reverseBids[i].auctionId = a /\ reverseBids[i].status = "ACTIVE"}

\* Math.min(...allBids.map(b => b.amount)), Infinity without bids
lowestAmount(a) ==
  LET allBids == getBidsForAuction(a)
  IN  IF allBids = {} THEN Infinity
      ELSE reverseBids[CHOOSE i \in allBids :
                         \A j \in allBids : reverseBids[i].amount <= reverseBids[j].amount].amount

LiveReturn(p) == liveCall' = [liveCall EXCEPT ![p] = LiveIdle]

LiveBegin(p, rec) ==
  /\ liveCall[p].pc = "idle"
  /\ serial => \A q \in Procs : liveCall[q].pc = "idle"
  /\ liveCall' = [liveCall EXCEPT ![p] = rec]

\* VendorAuctionConsole.handlePlaceBid: the console lists the auctions on the
\* vendor's lanes that were ACTIVE when it loaded; the amount must be positive.
consolePlaceBid(p, v, a, amount) ==
  /\ auctionLane[a] \in vendorLanes[v]
  /\ amount > 0
  /\ Len(reverseBids) + Cardinality({q \in Procs : liveCall[q].op = "placeBid"})
       < MaxReverseBids
  /\ LiveBegin(p, [LiveIdle EXCEPT !.op = "placeBid", !.pc = "lp_auction",
                                   !.auctionId = a, !.vendorId = v, !.amount = amount])
  /\ UNCHANGED <<liveAuctions, reverseBids, bsVars, appVars, serial>>

\* AdminAuctionMonitor.handleCloseAuction
monitorCloseAuction(p, a) ==
  /\ LiveBegin(p, [LiveIdle EXCEPT !.op = "closeAuction", !.pc = "lc_status",
                                   !.auctionId = a])
  /\ UNCHANGED <<liveAuctions, reverseBids, bsVars, appVars, serial>>

\* LiveAuctionService.closeAuction: status CLOSED, whatever it was.
liveCloseAuction(p) ==
  /\ liveCall[p].pc = "lc_status"
  /\ liveAuctions' = [liveAuctions EXCEPT ![liveCall[p].auctionId].status = "CLOSED"]
  /\ LiveReturn(p)
  /\ UNCHANGED <<reverseBids, bsVars, appVars, serial>>

\* LiveAuctionService.placeBid: getAuctionById, then the status and expiry
\* checks.
livePlaceBid_auction(p) ==
  /\ liveCall[p].pc = "lp_auction"
  /\ LET auction == liveAuctions[liveCall[p].auctionId]
     IN  IF auction.status # "ACTIVE" \/ auction.endTime < now
         THEN LiveReturn(p)
         ELSE liveCall' = [liveCall EXCEPT ![p].pc = "lp_prev"]
  /\ UNCHANGED <<liveAuctions, reverseBids, bsVars, appVars, serial>>

\* getVendorBidsOnAuction, then the check against the vendor's latest bid.
livePlaceBid_prev(p) ==
  /\ liveCall[p].pc = "lp_prev"
  /\ LET latest == latestBid(liveCall[p].auctionId, liveCall[p].vendorId)
     IN  IF latest # 0 /\ liveCall[p].amount >= reverseBids[latest].amount
         THEN LiveReturn(p)
         ELSE liveCall' = [liveCall EXCEPT ![p].pc = "lp_all"]
  /\ UNCHANGED <<liveAuctions, reverseBids, bsVars, appVars, serial>>

livePlaceBid_all_mustBeat(p) ==
  /\ liveCall[p].pc = "lp_all"
  /\ IF liveCall[p].amount >= lowestAmount(liveCall[p].auctionId)
     THEN LiveReturn(p)
     ELSE liveCall' = [liveCall EXCEPT ![p].pc = "lp_set",
                                       ![p].lowestBid = lowestAmount(liveCall[p].auctionId)]
  /\ UNCHANGED <<liveAuctions, reverseBids, bsVars, appVars, serial>>

\* getBidsForAuction: the lowest ACTIVE amount; a higher bid is only warned
\* about.
livePlaceBid_all(p) ==
  /\ liveCall[p].pc = "lp_all"
  /\ liveCall' = [liveCall EXCEPT ![p].pc = "lp_set",
                                  ![p].lowestBid = lowestAmount(liveCall[p].auctionId)]
  /\ UNCHANGED <<liveAuctions, reverseBids, bsVars, appVars, serial>>

\* set(newBidRef, bidWithId): the bid is stored ACTIVE.
livePlaceBid_set(p) ==
  /\ liveCall[p].pc = "lp_set"
  /\ reverseBids' = Append(reverseBids, [auctionId |-> liveCall[p].auctionId,
                                         vendorId |-> liveCall[p].vendorId,
                                         amount |-> liveCall[p].amount,
                                         status |-> "ACTIVE"])
  /\ IF liveCall[p].amount < liveCall[p].lowestBid
     THEN liveCall' = [liveCall EXCEPT ![p].pc = "lp_lowest"]
     ELSE LiveReturn(p)
  /\ UNCHANGED <<liveAuctions, bsVars, appVars, serial>>

\* update(live_auctions/id, {lowestBid, lowestBidVendorId})
livePlaceBid_lowest(p) ==
  /\ liveCall[p].pc = "lp_lowest"
  /\ liveAuctions' = [liveAuctions EXCEPT
                        ![liveCall[p].auctionId].lowestBid = liveCall[p].amount,
                        ![liveCall[p].auctionId].lowestBidVendorId = liveCall[p].vendorId]
  /\ LiveReturn(p)
  /\ UNCHANGED <<reverseBids, bsVars, appVars, serial>>

LiveNext ==
  \/ \E p \in Procs, v \in Vendors, a \in Auctions, amount \in Amounts :
       consolePlaceBid(p, v, a, amount)
  \/ \E p \in Procs, a \in Auctions : monitorCloseAuction(p, a)
  \/ \E p \in Procs : \/ liveCloseAuction(p)
                      \/ livePlaceBid_auction(p)
                      \/ livePlaceBid_prev(p)
                      \/ livePlaceBid_all(p)
                      \/ livePlaceBid_set(p)
                      \/ livePlaceBid_lowest(p)
  \/ Tick

\* createLiveAuction: an ACTIVE auction that ends at endTime, no bids yet.
InitLive ==
  /\ liveAuctions = [a \in Auctions |->
                       [status |-> "ACTIVE", endTime |-> 1, lowestBid |-> 0,
                        lowestBidVendorId |-> "none", winningBidId |-> 0]]
  /\ reverseBids = <<>>
  /\ liveCall = [p \in Procs |-> LiveIdle]

----------------------------------------------------------------------------
\* createBid: a new ShipmentBid is OPEN without offers; its bidding window
\* ends at bidEnd, and it carries the reserved price and the ceiling rate the
\* admin entered.  The fields 0 / "none" / FALSE stand for undefined.
InitApp ==
  /\ appBid \in [AppBids -> {[status |-> "OPEN", offers |-> <<>>, bidEnd |-> e,
                              reservedPrice |-> 1, ceilingRate |-> MaxOfferAmount - 1,
                              counterOffer |-> 0, winningVendorId |-> "none",
                              finalAmount |-> 0, vehicleDetails |-> FALSE] :
                             e \in {1}}]
  /\ now = 0

\* createShipment: a new shipment is OPEN; no bids yet, every client idle.
InitBS ==
  /\ shipments = [s \in Shipments |->
                    [status |-> "OPEN", winningBidId |-> 0, finalAmount |-> 0,
                     winningVendorId |-> "none"]]
  /\ bids = <<>>
  /\ call = [p \in Procs |-> Idle]

\* Clients run concurrently: any client may take its next step.
Init == InitBS /\ InitApp /\ InitLive /\ serial = FALSE

\* One call at a time: a call starts only while every client is idle.
InitSerial == InitBS /\ InitApp /\ InitLive /\ serial = TRUE

Next == \E p \in Procs : StartBid(p) \/ StartAdmin(p) \/ Step(p)

Spec == Init /\ [][Next]_vars

SpecSerial == InitSerial /\ [][Next]_vars

SpecApp == Init /\ [][AppNext]_vars

\* The handlers of App at one instant of the clock.
SpecAppHandlers == Init /\ [][AppHandlers]_vars

\* AdminAuctionConsole alone: the bidding is over, the shipment is OPEN with
\* two or more PENDING bids of different vendors, and two admins use the console
\* at the same time.
InitConsole ==
  /\ shipments = [s \in Shipments |->
                    [status |-> "OPEN", winningBidId |-> 0, finalAmount |-> 0,
                     winningVendorId |-> "none"]]
  /\ \E n \in 2..MaxBids :
       \E vs \in [1..n -> Vendors], as \in [1..n -> Amounts] :
         /\ \A i, j \in 1..n : i # j => vs[i] # vs[j]
         /\ bids = [i \in 1..n |-> [shipmentId |-> "S1", vendorId |-> vs[i],
                                     bidAmount |-> as[i], status |-> "PENDING"]]
  /\ call = [p \in Procs |-> Idle]
  /\ InitApp
  /\ InitLive
  /\ serial = FALSE

ConsoleNext ==
  \E p \in Procs :
    \/ \E s \in Shipments : handleCloseAuction(p, s)
    \/ \E s \in Shipments : handleApproveBid(p, s)
    \/ \E s \in Shipments : handleRejectAndNext(p, s)
    \/ closeAuction_read(p)
    \/ closeAuction_status(p)
    \/ closeAuction_winner(p)
    \/ closeAuction_reject(p)
    \/ finalizeBid_status(p)
    \/ finalizeBid_vendor(p)
    \/ rejectAndSelectNext_reject(p)
    \/ rejectAndSelectNext_approve(p)
    \/ rejectAndSelectNext_status(p)

SpecConsole == InitConsole /\ [][ConsoleNext]_vars

\* One call at a time, and any awaited write may fail.
FailNext == Next \/ \E p \in Procs : await_throws(p) \/ catch_return(p)

SpecFail == InitSerial /\ [][FailNext]_vars

SpecLive == Init /\ [][LiveNext]_vars

\* The admin operations called as the service exports them, with any bid id
\* and the id of shipment S1.  A second shipment has bids of its own; no call
\* here names it, so only its bids are kept.
OtherShipment == "S2"

\* BiddingService.approveBid(bidId, shipmentId)
service_approveBid(p, b, s) ==
  /\ b \in BidIds
  /\ Begin(p, [Idle EXCEPT !.op = "approveBid", !.pc = "ab_approve",
                           !.shipmentId = s, !.bidId = b])
  /\ UNCHANGED <<shipments, bids, envVars>>

\* BiddingService.finalizeBid(bidId, shipmentId)
service_finalizeBid(p, b, s) ==
  /\ b \in BidIds
  /\ Begin(p, [Idle EXCEPT !.op = "finalizeBid", !.pc = "fb_status",
                           !.shipmentId = s, !.bidId = b])
  /\ UNCHANGED <<shipments, bids, envVars>>

\* BiddingService.rejectAndSelectNext(rejectedBidId, nextBidId, shipmentId)
service_rejectAndSelectNext(p, b, n, s) ==
  /\ b \in BidIds /\ n \in BidIds
  /\ Begin(p, [Idle EXCEPT !.op = "rejectAndSelectNext", !.pc = "rs_reject",
                           !.shipmentId = s, !.bidId = b, !.nextBidId = n])
  /\ UNCHANGED <<shipments, bids, envVars>>

\* Bids were placed on both shipments, one per vendor and shipment; every bid
\* is PENDING and the clients take turns.
InitFrame ==
  /\ shipments = [s \in Shipments |->
                    [status |-> "OPEN", winningBidId |-> 0, finalAmount |-> 0,
                     winningVendorId |-> "none"]]
  /\ \E n \in 2..MaxBids :
       \E vs \in [1..n -> Vendors], ss \in [1..n -> Shipments \cup {OtherShipment}] :
         /\ \A i, j \in 1..n : i # j /\ ss[i] = ss[j] => vs[i] # vs[j]
         /\ bids = [i \in 1..n |-> [shipmentId |-> ss[i], vendorId |-> vs[i],
                                     bidAmount |-> 1, status |-> "PENDING"]]
  /\ call = [p \in Procs |-> Idle]
  /\ InitApp
  /\ InitLive
  /\ serial = TRUE

FrameNext ==
  \E p \in Procs :
    \/ \E s \in Shipments, b \in 1..MaxBids : service_approveBid(p, b, s)
    \/ \E s \in Shipments, b \in 1..MaxBids : service_finalizeBid(p, b, s)
    \/ \E s \in Shipments, b, n \in 1..MaxBids : service_rejectAndSelectNext(p, b, n, s)
    \/ approveBid_approve(p)
    \/ approveBid_read(p)
    \/ approveBid_reject(p)
    \/ approveBid_status(p)
    \/ finalizeBid_status(p)
    \/ finalizeBid_vendor(p)
    \/ rejectAndSelectNext_reject(p)
    \/ rejectAndSelectNext_approve(p)
    \/ rejectAndSelectNext_status(p)

SpecFrame == InitFrame /\ [][FrameNext]_vars

----------------------------------------------------------------------------
(***************************************************************************)
(* Properties                                                              *)
(***************************************************************************)
BidsOf(s) == {i \in BidIds : bids[i].shipmentId = s}
BidsWith(s, status) == {i \in BidsOf(s) : bids[i].status = status}

\* C1: a vendor has at most one live (PENDING) bid on a shipment at any
\* time, also when two submissions of the vendor run concurrently.
C1_AtMostOneActiveBid ==
  \A s \in Shipments, v \in Vendors :
    Cardinality({i \in BidsWith(s, "PENDING") : bids[i].vendorId = v}) <= 1

\* C2: of the closeAuction calls on one shipment at most one gets as far as
\* selecting a winner; a second call does not select again.
C2_CloseSelectsOnce ==
  \A p, q \in Procs :
    /\ p # q
    /\ call[p].op = "closeAuction" /\ call[q].op = "closeAuction"
    /\ call[p].shipmentId = call[q].shipmentId
    => ~ /\ call[p].pc \in {"ca_winner", "ca_reject"}
         /\ call[q].pc \in {"ca_winner", "ca_reject"}

\* C3: a shipment never has more than one APPROVED bid.
C3_AtMostOneApproved ==
  \A s \in Shipments : Cardinality(BidsWith(s, "APPROVED")) <= 1

\* C4: while a shipment is not OPEN no step adds a bid to it.
C4_NoBidUnlessOpen ==
  [][\A s \in Shipments :
       shipments[s].status # "OPEN" =>
         Cardinality(BidsOf(s)') = Cardinality(BidsOf(s))]_vars

\* C5: every recorded bid comes from a vendor eligible for the shipment's
\* lane.
C5_OnlyEligibleVendorsBid ==
  \A i \in BidIds : isEligible(bids[i].vendorId, bids[i].shipmentId)

\* C6: no offer enters the ledger after the bidding window has ended.
C6_NoOfferAfterWindow ==
  \A b \in AppBids :
    \A k \in 1..Len(appBid[b].offers) :
      appBid[b].offers[k].timestamp <= appBid[b].bidEnd

\* The lowest bid of a shipment; the earliest one among equal amounts.
LowestBid(s) ==
  CHOOSE i \in BidsOf(s) :
    \A j \in BidsOf(s) :
      \/ bids[i].bidAmount < bids[j].bidAmount
      \/ bids[i].bidAmount = bids[j].bidAmount /\ i <= j

C8_WinnerRecorded ==
  \A s \in Shipments :
    AllIdle /\ shipments[s].status = "PENDING_ADMIN_APPROVAL" =>
      \A i \in BidsWith(s, "APPROVED") :
        /\ shipments[s].winningBidId = i
        /\ shipments[s].finalAmount = bids[i].bidAmount

\* C9: when rejectAndSelectNext returns, the rejected bid is REJECTED, the next
\* bid is APPROVED, winningBidId names the next bid and the shipment is still
\* PENDING_ADMIN_APPROVAL.
C9_RejectPromotesNext ==
  [][\A p \in Procs :
       call[p].op = "rejectAndSelectNext" /\ call'[p].pc = "idle" =>
         LET s == call[p].shipmentId
         IN  /\ bids'[call[p].bidId].status = "REJECTED"
             /\ bids'[call[p].nextBidId].status = "APPROVED"
             /\ shipments'[s].winningBidId = call[p].nextBidId
             /\ shipments'[s].status = "PENDING_ADMIN_APPROVAL"]_vars

\* C10: a shipment awaiting approval whose bids have all been rejected is
\* CLOSED once the calls have returned.
C10_ExhaustedIsClosed ==
  \A s \in Shipments :
    /\ AllIdle
    /\ BidsOf(s) # {}
    /\ BidsOf(s) = BidsWith(s, "REJECTED")
    => shipments[s].status \in {"OPEN", "CLOSED"}

\* C11: an approval (approveBid, finalizeBid) attempted on a shipment that is
\* not PENDING_ADMIN_APPROVAL changes neither the shipment nor any bid.
C11_IllegalApproveChangesNothing ==
  [][\A p \in Procs :
       /\ call[p].op \in {"approveBid", "finalizeBid"}
       /\ shipments[call[p].shipmentId].status # "PENDING_ADMIN_APPROVAL"
       => shipments' = shipments /\ bids' = bids]_vars

\* C12: when finalizeBid returns for a shipment awaiting approval, the shipment
\* is FINALIZED and its winningBidId is the APPROVED bid that was finalized.
C12_FinalizeReachesFinalized ==
  [][\A p \in Procs :
       call[p].op = "finalizeBid" /\ call'[p].pc = "idle" =>
         LET s == call[p].shipmentId
         IN  /\ shipments'[s].status = "FINALIZED"
             /\ shipments'[s].winningBidId = call[p].bidId
             /\ bids'[call[p].bidId].status = "APPROVED"]_vars

\* C13: a ShipmentBid that is CLOSED or ASSIGNED keeps its status whatever
\* operation runs.
C13_TerminalStatesStay ==
  [][\A b \in AppBids :
       appBid[b].status \in {"CLOSED", "ASSIGNED"} =>
         appBid'[b].status = appBid[b].status]_vars

\* C14: once the console's calls have returned, a shipment awaiting approval
\* is as one call after the other leaves it: one bid APPROVED, every other bid
\* REJECTED.
C14_ConsoleCallsSerialize ==
  \A s \in Shipments :
    AllIdle /\ shipments[s].status = "PENDING_ADMIN_APPROVAL" =>
      /\ Cardinality(BidsWith(s, "APPROVED")) = 1
      /\ BidsOf(s) = BidsWith(s, "APPROVED") \cup BidsWith(s, "REJECTED")

\* C15: a call that failed has written nothing: in its catch block the
\* shipment and the bid it was started on are as its handler found them (an
\* OPEN shipment for closeAuction, a PENDING bid for approveBid, an APPROVED
\* bid for rejectAndSelectNext).
C15_FailedCallWroteNothing ==
  \A p \in Procs :
    call[p].pc = "failed" =>
      /\ call[p].op = "closeAuction" =>
           shipments[call[p].shipmentId].status = "OPEN"
      /\ call[p].op = "approveBid" => bids[call[p].bidId].status = "PENDING"
      /\ call[p].op = "rejectAndSelectNext" => bids[call[p].bidId].status = "APPROVED"

C17_OwnBidsStrictlyDecrease ==
  \A i, j \in RBidIds :
    /\ i < j
    /\ reverseBids[i].auctionId = reverseBids[j].auctionId
    /\ reverseBids[i].vendorId = reverseBids[j].vendorId
    => reverseBids[j].amount < reverseBids[i].amount

\* C18: a counter offer is made (the bid turns NEGOTIATING or its counterOffer
\* changes) only on an OPEN bid that has offers.
C18_CounterOnlyWhenOpen ==
  [][\A b \in AppBids :
       /\ appBid'[b].status = "NEGOTIATING"
       /\ \/ appBid[b].status # "NEGOTIATING"
          \/ appBid'[b].counterOffer # appBid[b].counterOffer
       => appBid[b].status = "OPEN" /\ Len(appBid[b].offers) > 0]_vars

\* C19: accepting the counter offer of a NEGOTIATING bid makes it FINALIZED
\* with finalAmount equal to the counter offer.
C19_AcceptFinalizesAtCounter ==
  \A b \in AppBids :
    appBid[b].status = "NEGOTIATING" =>
      LET after == afterRespondToCounter(b, TRUE)[b]
      IN  /\ after.status = "FINALIZED"
          /\ after.finalAmount = appBid[b].counterOffer

\* A counter offer to the lowest bidder was accepted.
C19_Witness ==
  \E b \in AppBids :
    /\ appBid[b].status = "FINALIZED"
    /\ appBid[b].counterOffer > 0
    /\ appBid[b].finalAmount = appBid[b].counterOffer
    /\ Len(appBid[b].offers) > 0
    /\ appBid[b].winningVendorId = appBid[b].offers[1].vendorId

\* C20: declining the counter offer of a NEGOTIATING bid makes it OPEN again
\* with no counter offer, its offers kept.
C20_DeclineReopens ==
  \A b \in AppBids :
    appBid[b].status = "NEGOTIATING" =>
      LET after == afterRespondToCounter(b, FALSE)[b]
      IN  /\ after.status = "OPEN"
          /\ after.counterOffer = 0
          /\ after.offers = appBid[b].offers

\* A counter offer to the lowest bidder was declined: the bid is OPEN again.
C20_Witness ==
  \E b \in AppBids :
    /\ appBid[b].status = "OPEN"
    /\ appBid[b].counterOffer = 0
    /\ Len(appBid[b].offers) > 0
    /\ appBid[b].winningVendorId = appBid[b].offers[1].vendorId
    /\ appBid[b].finalAmount = 0

\* C21: a ShipmentBid becomes ASSIGNED only from FINALIZED: submitting vehicle
\* details for a bid in any other status does not make it ASSIGNED.
C21_AssignedOnlyFromFinalized ==
  [][\A b \in AppBids :
       appBid'[b].status = "ASSIGNED" /\ appBid[b].status # "ASSIGNED" =>
         appBid[b].status = "FINALIZED"]_vars

\* C22: every offer in the ledger of a ShipmentBid is at least the reserved
\* price, when one is set, and at most the ceiling rate, when one is set.
C22_OffersWithinFloorAndCeiling ==
  \A b \in AppBids :
    \A k \in 1..Len(appBid[b].offers) :
      /\ appBid[b].reservedPrice > 0 =>
           appBid[b].offers[k].amount >= appBid[b].reservedPrice
      /\ appBid[b].ceilingRate > 0 =>
           appBid[b].offers[k].amount <= appBid[b].ceilingRate

\* C23: no offer or bid with an amount of 0 or less is recorded, whichever
\* way it was submitted.
C23_AmountsPositive ==
  /\ \A b \in AppBids :
       \A k \in 1..Len(appBid[b].offers) : appBid[b].offers[k].amount > 0
  /\ \A i \in BidIds : bids[i].bidAmount > 0
  /\ \A i \in RBidIds : reverseBids[i].amount > 0

\* C24: a reverse-auction submission that has passed the checks on the
\* auction and on the vendor's own latest bid is stored with its amount,
\* whether or not it beats the lowest ACTIVE bid of the auction.
C24_NeedNotBeatMarketLowest ==
  [][\A p \in Procs :
       liveCall'[p] # liveCall[p] =>
         /\ liveCall[p].pc = "lp_all" =>
              liveCall'[p] = [liveCall[p] EXCEPT !.pc = "lp_set",
                                                 !.lowestBid = lowestAmount(liveCall[p].auctionId)]
         /\ liveCall[p].pc = "lp_set" =>
              reverseBids' = Append(reverseBids, [auctionId |-> liveCall[p].auctionId,
                                                  vendorId |-> liveCall[p].vendorId,
                                                  amount |-> liveCall[p].amount,
                                                  status |-> "ACTIVE"])]_vars

\* A vendor's first bid was stored above the ACTIVE bid another vendor had
\* stored before.
C24_Witness ==
  /\ \A p \in Procs : liveCall[p].pc = "idle"
  /\ Len(reverseBids) = 2
  /\ reverseBids[1].vendorId # reverseBids[2].vendorId
  /\ reverseBids[1].auctionId = reverseBids[2].auctionId
  /\ reverseBids[1].status = "ACTIVE" /\ reverseBids[2].status = "ACTIVE"
  /\ reverseBids[2].amount > reverseBids[1].amount

\* C25: the live (PENDING) bids of a shipment are listed by ascending amount,
\* equal amounts by earlier submission, and the bid a close treats as the
\* leader is the first of them.
C25_RankOneLeads ==
  /\ \A s \in Shipments :
       LET shown == SelectSeq(getBidsForShipment(s), LAMBDA i : bids[i].status = "PENDING")
       IN  \A k, l \in 1..Len(shown) :
             k < l => \/ bids[shown[k]].bidAmount < bids[shown[l]].bidAmount
                      \/ /\ bids[shown[k]].bidAmount = bids[shown[l]].bidAmount
                         /\ shown[k] < shown[l]
  /\ \A p \in Procs :
       /\ call[p].pc = "ca_status"
       /\ BidsWith(call[p].shipmentId, "PENDING") # {}
       => LET s == call[p].shipmentId
              shown == SelectSeq(getBidsForShipment(s), LAMBDA i : bids[i].status = "PENDING")
          IN  call[p].bidId = shown[1]

\* C26: a FINALIZED shipment's winningBidId names an APPROVED bid of that
\* shipment and its winningVendorId is that bid's vendor; a FINALIZED
\* ShipmentBid's winningVendorId is the vendor of one of its offers.
C26_FinalizedWinnerConsistent ==
  /\ \A s \in Shipments :
       shipments[s].status = "FINALIZED" =>
         /\ shipments[s].winningBidId \in BidsWith(s, "APPROVED")
         /\ shipments[s].winningVendorId = bids[shipments[s].winningBidId].vendorId
  /\ \A b \in AppBids :
       appBid[b].status = "FINALIZED" =>
         \E k \in 1..Len(appBid[b].offers) :
           appBid[b].offers[k].vendorId = appBid[b].winningVendorId

\* C27: while an admin operation called for one shipment runs, no bid of
\* another shipment changes its status, whichever bid id the call was given.
C27_OtherShipmentsBidsUntouched ==
  [][\A p \in Procs :
       call[p].op \in {"approveBid", "finalizeBid", "rejectAndSelectNext"} =>
         \A i \in BidIds :
           bids[i].shipmentId # call[p].shipmentId =>
             bids'[i].status = bids[i].status]_vars

\* C28: when no placeBid call is in flight, the lowestBid and
\* lowestBidVendorId cached on an auction with ACTIVE bids are the amount and
\* the vendor of a lowest ACTIVE bid.
C28_CachedLowestIsMinimum ==
  \A a \in Auctions :
    /\ \A p \in Procs : liveCall[p].op # "placeBid"
    /\ getBidsForAuction(a) # {}
    => /\ liveAuctions[a].lowestBid = lowestAmount(a)
       /\ \E i \in getBidsForAuction(a) :
            /\ reverseBids[i].amount = liveAuctions[a].lowestBid
            /\ reverseBids[i].vendorId = liveAuctions[a].lowestBidVendorId

\* C29: for a shipment that is PENDING_ADMIN_APPROVAL with an APPROVED bid, once
\* the calls have returned, the console offers Finalize: the first bid it lists
\* is APPROVED.
C29_FinalizeOffered ==
  \A s \in Shipments :
    /\ AllIdle
    /\ shipments[s].status = "PENDING_ADMIN_APPROVAL"
    /\ BidsWith(s, "APPROVED") # {}
    => bids[getBidsForShipment(s)[1]].status = "APPROVED"

\* C30: when a revision through the real-time console returns (the vendor had
\* a bid and submitted a lower amount), the vendor has exactly one bid on the
\* shipment that is not REJECTED, and it carries the new amount.
C30_RevisionLeavesOneLiveBid ==
  [][\A p \in Procs :
       /\ call[p].op = "handleSubmitBid"
       /\ call[p].bidId # 0
       /\ call'[p].pc = "idle"
       => LET live == {i \in 1..Len(bids') :
                         /\ bids'[i].shipmentId = call[p].shipmentId
                         /\ bids'[i].vendorId = call[p].vendorId
                         /\ bids'[i].status # "REJECTED"}
          IN  /\ Cardinality(live) = 1
              /\ \A i \in live : bids'[i].bidAmount = call[p].bidAmount]_vars

====
